---- MODULE Spec2Model ----
(***************************************************************************)
(* A model of the IoT hygiene monitoring backend: the complaint lifecycle  *)
(* (models/Complaint.js, routes/complaints.js), feedback on resolved       *)
(* complaints (models/Feedback.js, routes/feedback.js), the ownership      *)
(* middleware (middleware/auth.js) and the sensor status engine            *)
(* (models/Sensor.js, routes/sensors.js).                                  *)
(*                                                                         *)
(* Documents are records; a collection is a function from the ids of the   *)
(* stored documents to the documents.  A Mongoose save() writes only the   *)
(* paths that differ from the values the document was loaded with.         *)
(* Date.now() is the variable now, counted in whole days.                  *)
(***************************************************************************)
EXTENDS Integers, Sequences, FiniteSets, TLC

VARIABLES
    now,          \* Date.now(), in days
    complaints,   \* the Complaint collection: id -> document
    usedIds,      \* the complaint ids ever handed out (an ObjectId is never reused)
    feedbacks,    \* the Feedback collection: a set of documents
    nextFid,      \* the number of feedback documents ever inserted
    inflight,     \* the requests that are between two awaits: request -> position and locals
    lastOp,       \* the request that completed last and its HTTP response
    sensors,      \* the Sensor collection: id -> document
    posted,       \* every value posted as a data point, in order
    nPosts,       \* the number of data points posted since the start
    derived,      \* the inputs and the result of the last evaluation of a
                  \* derivation (status, health score)
    users         \* the User collection: id -> document

vars == <<now, complaints, usedIds, feedbacks, nextFid, inflight, lastOp,
          sensors, posted, nPosts, derived, users>>

coreVars == <<now, complaints, usedIds, feedbacks, nextFid, inflight>>
sensorVars == <<sensors, posted, nPosts, derived>>

----------------------------------------------------------------------------
(* Bounds of the model *)

MaxNow == 15          \* the clock stops after this many days
MaxFeedbacks == 2     \* feedback documents inserted in one run

----------------------------------------------------------------------------
(* Program constants *)

AutoEscalateDays == 7     \* ageInDays >= 7, Math.floor(ageInDays / 7)
MaxEscalationLevel == 3   \* Math.min(3, ...)
UrgentLevel == 2          \* escalationLevel >= 2
Unset == -1               \* a Date or Number path that has no value (undefined)

Absent == "absent"        \* a field the request body does not carry (undefined)
NoUser == "nobody"        \* an ObjectId path that has no value

Admins == {"admin1"}
RegularUsers == {"user1", "user2"}
Users == Admins \cup RegularUsers
Role(u) == IF u \in Admins THEN "admin" ELSE "user"
SeedEmail ==
    [admin1 |-> "admin1@mail", user1 |-> "user1@mail", user2 |-> "user2@mail"]

ComplaintIds == {"c1"}
Creators == {"user1"}        \* the users who file complaints
Priorities == {"low", "medium", "high"}
Statuses == {"pending", "in-progress", "resolved", "closed"}
SeedStatuses == {"pending", "in-progress", "resolved"}
SeedPriorities == {"medium", "high"}
Reqs == {"r1", "r2"}

Min(a, b) == IF a <= b THEN a ELSE b

----------------------------------------------------------------------------
(* middleware/auth.js *)

\* requireOwnershipOrAdmin(resourceUserIdField): TRUE when next() is called,
\* FALSE when the request is answered 403.  paramUserId is
\* req.params[resourceUserIdField], bodyUserId is req.body[resourceUserIdField].
requireOwnershipOrAdmin(actor, paramUserId, bodyUserId) ==
    IF users[actor].role = "admin" THEN TRUE
    ELSE LET resourceUserId == IF paramUserId /= Absent THEN paramUserId
                               ELSE bodyUserId
         IN ~(resourceUserId /= Absent /\ resourceUserId /= actor)

\* requireAdmin: req.user is the stored user that authenticateToken loaded
requireAdmin(actor) == users[actor].role = "admin"

----------------------------------------------------------------------------
(* models/Complaint.js *)

\* new Complaint({priority, userId, status}) with the schema defaults; of the
\* fields a client edits (title, description, category, priority, location)
\* the model keeps priority, the one the lifecycle reads
NewComplaint(priority, status, userId, origin) ==
    [priority |-> priority, status |-> status,
     userId |-> userId, assignedTo |-> NoUser, responded |-> FALSE,
     escalationLevel |-> 0, isUrgent |-> FALSE,
     createdAt |-> now, actualResolutionTime |-> Unset, origin |-> origin]

\* virtual ageInDays at time t
ageInDays(doc, t) == t - doc.createdAt

\* complaintPreSave without the cap on the age-derived level
complaintPreSaveUncapped(doc, statusModified, t) ==
    LET d1 == IF statusModified /\ doc.status = "resolved"
              THEN [doc EXCEPT !.actualResolutionTime = t]
              ELSE doc
        age == ageInDays(d1, t)
    IN IF age >= AutoEscalateDays /\ d1.priority = "high" /\ d1.status = "pending"
       THEN [d1 EXCEPT !.escalationLevel = age \div AutoEscalateDays]
       ELSE d1

\* complaintPreSave with the age compared by > instead of >=
complaintPreSaveStrict(doc, statusModified, t) ==
    LET d1 == IF statusModified /\ doc.status = "resolved"
              THEN [doc EXCEPT !.actualResolutionTime = t]
              ELSE doc
        age == ageInDays(d1, t)
    IN IF age > AutoEscalateDays /\ d1.priority = "high" /\ d1.status = "pending"
       THEN [d1 EXCEPT !.escalationLevel =
                           Min(MaxEscalationLevel, age \div AutoEscalateDays)]
       ELSE d1

\* pre('save'): statusModified is this.isModified('status')
complaintPreSave(doc, statusModified, t) ==
    LET d1 == IF statusModified /\ doc.status = "resolved"
              THEN [doc EXCEPT !.actualResolutionTime = t]
              ELSE doc
        age == ageInDays(d1, t)
    IN IF age >= AutoEscalateDays /\ d1.priority = "high" /\ d1.status = "pending"
       THEN [d1 EXCEPT !.escalationLevel =
                           Min(MaxEscalationLevel, age \div AutoEscalateDays)]
       ELSE d1

\* methods.escalate, up to its save()
escalate(doc) ==
    LET l == Min(MaxEscalationLevel, doc.escalationLevel + 1)
    IN [doc EXCEPT !.escalationLevel = l,
                   !.isUrgent = IF l >= UrgentLevel THEN TRUE ELSE @]

\* addAdminResponse moving the complaint to in-progress
addAdminResponseInProgress(doc) ==
    [doc EXCEPT !.responded = TRUE, !.status = "in-progress"]

\* methods.addAdminResponse, up to its save()
addAdminResponse(doc) == [doc EXCEPT !.responded = TRUE]

\* methods.resolve, up to its save()
resolve(doc, adminId, t) ==
    [doc EXCEPT !.status = "resolved", !.actualResolutionTime = t,
                !.assignedTo = adminId]

\* document.save() of a loaded document: the pre-save hook runs on the local
\* copy, then the modified paths (those that differ from the loaded values)
\* are written over the stored document.
SaveComplaint(stored, orig, local, t) ==
    LET hooked == complaintPreSave(local, local.status /= orig.status, t)
    IN [f \in DOMAIN hooked |->
            IF hooked[f] = orig[f] THEN stored[f] ELSE hooked[f]]

----------------------------------------------------------------------------
(* routes/complaints.js, one request at a time *)

Exists(c) == c \in DOMAIN complaints

Done(op, actor, cid, code) ==
    lastOp' = [op |-> op, actor |-> actor, cid |-> cid, code |-> code]

FreshId == CHOOSE c \in ComplaintIds \ usedIds : TRUE

Store(c, doc) ==
    complaints' = [x \in DOMAIN complaints \cup {c} |->
                      IF x = c THEN doc ELSE complaints[x]]

\* ComplaintFromBody taking status and escalationLevel from the body as well
ComplaintFromWholeBody(actor, body) ==
    LET doc == NewComplaint(IF body.priority = Absent THEN "medium" ELSE body.priority,
                            IF body.status = Absent THEN "pending" ELSE body.status,
                            actor, "api")
    IN [doc EXCEPT !.escalationLevel =
                       IF body.escalationLevel = Unset THEN @ ELSE body.escalationLevel]

\* the document POST /api/complaints builds: of the body it reads title,
\* description, category, priority (default 'medium') and location only
ComplaintFromBody(actor, body) ==
    NewComplaint(IF body.priority = Absent THEN "medium" ELSE body.priority,
                 "pending", actor, "api")

\* POST /api/complaints
CreateComplaint(actor, body) ==
    /\ usedIds /= ComplaintIds
    /\ LET c == FreshId
           doc == ComplaintFromBody(actor, body)
       IN /\ Store(c, complaintPreSave(doc, FALSE, now))
          /\ usedIds' = usedIds \cup {c}
          /\ lastOp' = [op |-> "create", actor |-> actor, cid |-> c,
                        code |-> 201, body |-> body]
    /\ UNCHANGED <<users, sensorVars, now, feedbacks, nextFid, inflight>>

\* seedDatabase: new Complaint({...complaintData, userId}).save()
SeedComplaint(priority, status, userId) ==
    /\ usedIds /= ComplaintIds
    /\ LET c == FreshId
           doc == NewComplaint(priority, status, userId, "seed")
       IN /\ Store(c, complaintPreSave(doc, TRUE, now))
          /\ usedIds' = usedIds \cup {c}
          /\ Done("seed", userId, c, 0)
    /\ UNCHANGED <<users, sensorVars, now, feedbacks, nextFid, inflight>>

\* the fields PUT /api/complaints/:id assigns
ApplyUpdate(doc, body) ==
    [doc EXCEPT !.priority = IF body.priority = Absent THEN @ ELSE body.priority]

\* UpdateComplaint rejecting resolved complaints only
UpdateComplaintClosedOpen(actor, c, body) ==
    /\ IF ~requireOwnershipOrAdmin(actor, Absent, body.userId)
       THEN /\ Done("update", actor, c, 403)
            /\ UNCHANGED complaints
       ELSE IF ~Exists(c)
       THEN /\ Done("update", actor, c, 404)
            /\ UNCHANGED complaints
       ELSE IF complaints[c].status = "resolved"
       THEN /\ Done("update", actor, c, 400)
            /\ UNCHANGED complaints
       ELSE /\ Store(c, SaveComplaint(complaints[c], complaints[c],
                                      ApplyUpdate(complaints[c], body), now))
            /\ Done("update", actor, c, 200)
    /\ UNCHANGED <<users, sensorVars, now, usedIds, feedbacks, nextFid, inflight>>

\* PUT /api/complaints/:id
UpdateComplaint(actor, c, body) ==
    /\ IF ~requireOwnershipOrAdmin(actor, Absent, body.userId)
       THEN /\ Done("update", actor, c, 403)
            /\ UNCHANGED complaints
       ELSE IF ~Exists(c)
       THEN /\ Done("update", actor, c, 404)
            /\ UNCHANGED complaints
       ELSE IF complaints[c].status \in {"resolved", "closed"}
       THEN /\ Done("update", actor, c, 400)
            /\ UNCHANGED complaints
       ELSE /\ Store(c, SaveComplaint(complaints[c], complaints[c],
                                      ApplyUpdate(complaints[c], body), now))
            /\ Done("update", actor, c, 200)
    /\ UNCHANGED <<users, sensorVars, now, usedIds, feedbacks, nextFid, inflight>>

\* DeleteComplaint accepting in-progress complaints as well
DeleteComplaintInProgress(actor, c, bodyUserId) ==
    /\ IF ~requireOwnershipOrAdmin(actor, Absent, bodyUserId)
       THEN /\ Done("delete", actor, c, 403)
            /\ UNCHANGED complaints
       ELSE IF ~Exists(c)
       THEN /\ Done("delete", actor, c, 404)
            /\ UNCHANGED complaints
       ELSE IF complaints[c].status \notin {"pending", "in-progress"}
       THEN /\ Done("delete", actor, c, 400)
            /\ UNCHANGED complaints
       ELSE /\ complaints' = [x \in DOMAIN complaints \ {c} |-> complaints[x]]
            /\ Done("delete", actor, c, 200)
    /\ UNCHANGED <<users, sensorVars, now, usedIds, feedbacks, nextFid, inflight>>

\* DELETE /api/complaints/:id
DeleteComplaint(actor, c, bodyUserId) ==
    /\ IF ~requireOwnershipOrAdmin(actor, Absent, bodyUserId)
       THEN /\ Done("delete", actor, c, 403)
            /\ UNCHANGED complaints
       ELSE IF ~Exists(c)
       THEN /\ Done("delete", actor, c, 404)
            /\ UNCHANGED complaints
       ELSE IF complaints[c].status /= "pending"
       THEN /\ Done("delete", actor, c, 400)
            /\ UNCHANGED complaints
       ELSE /\ complaints' = [x \in DOMAIN complaints \ {c} |-> complaints[x]]
            /\ Done("delete", actor, c, 200)
    /\ UNCHANGED <<users, sensorVars, now, usedIds, feedbacks, nextFid, inflight>>

\* POST /api/complaints/:id/respond
RespondComplaint(actor, c) ==
    /\ IF ~requireAdmin(actor)
       THEN /\ Done("respond", actor, c, 403)
            /\ UNCHANGED complaints
       ELSE IF ~Exists(c)
       THEN /\ Done("respond", actor, c, 404)
            /\ UNCHANGED complaints
       ELSE /\ Store(c, SaveComplaint(complaints[c], complaints[c],
                                      addAdminResponse(complaints[c]), now))
            /\ Done("respond", actor, c, 200)
    /\ UNCHANGED <<users, sensorVars, now, usedIds, feedbacks, nextFid, inflight>>

\* POST /api/complaints/:id/resolve
ResolveComplaint(actor, c) ==
    /\ IF ~requireAdmin(actor)
       THEN /\ Done("resolve", actor, c, 403)
            /\ UNCHANGED complaints
       ELSE IF ~Exists(c)
       THEN /\ Done("resolve", actor, c, 404)
            /\ UNCHANGED complaints
       ELSE IF complaints[c].status = "resolved"
       THEN /\ Done("resolve", actor, c, 400)
            /\ UNCHANGED complaints
       ELSE /\ Store(c, SaveComplaint(complaints[c], complaints[c],
                                      resolve(complaints[c], actor, now), now))
            /\ Done("resolve", actor, c, 200)
    /\ UNCHANGED <<users, sensorVars, now, usedIds, feedbacks, nextFid, inflight>>

\* EscalateComplaint answering 200 without a change on a resolved or closed
\* complaint
EscalateComplaintSilent(actor, c) ==
    /\ IF ~requireAdmin(actor)
       THEN /\ Done("escalate", actor, c, 403)
            /\ UNCHANGED complaints
       ELSE IF ~Exists(c)
       THEN /\ Done("escalate", actor, c, 404)
            /\ UNCHANGED complaints
       ELSE IF complaints[c].status \in {"resolved", "closed"}
       THEN /\ Done("escalate", actor, c, 200)
            /\ UNCHANGED complaints
       ELSE /\ Store(c, SaveComplaint(complaints[c], complaints[c],
                                      escalate(complaints[c]), now))
            /\ Done("escalate", actor, c, 200)
    /\ UNCHANGED <<users, sensorVars, now, usedIds, feedbacks, nextFid, inflight>>

\* POST /api/complaints/:id/escalate
EscalateComplaint(actor, c) ==
    /\ IF ~requireAdmin(actor)
       THEN /\ Done("escalate", actor, c, 403)
            /\ UNCHANGED complaints
       ELSE IF ~Exists(c)
       THEN /\ Done("escalate", actor, c, 404)
            /\ UNCHANGED complaints
       ELSE IF complaints[c].status \in {"resolved", "closed"}
       THEN /\ Done("escalate", actor, c, 400)
            /\ UNCHANGED complaints
       ELSE /\ Store(c, SaveComplaint(complaints[c], complaints[c],
                                      escalate(complaints[c]), now))
            /\ Done("escalate", actor, c, 200)
    /\ UNCHANGED <<users, sensorVars, now, usedIds, feedbacks, nextFid, inflight>>

\* the passing of a day (the clock is started by the first complaint: what
\* happens is the same whatever the date it was filed on)
Tick ==
    /\ usedIds /= {}
    /\ now < MaxNow
    /\ now' = now + 1
    /\ Done("tick", NoUser, "none", 0)
    /\ UNCHANGED <<users, sensorVars, complaints, usedIds, feedbacks, nextFid, inflight>>

----------------------------------------------------------------------------
(* models/Feedback.js and POST /api/feedback *)

HasFeedback(c, u) == \E f \in feedbacks : f.complaintId = c /\ f.userId = u

\* FeedbackRouteCheck without the ownership check
FeedbackRouteCheckNoOwner(actor, c) ==
    IF ~(c \in DOMAIN complaints) THEN 404
    ELSE IF complaints[c].status /= "resolved" THEN 400
    ELSE 0

\* the route's checks of the complaint (feedback.js 129-141): 0 when they pass
FeedbackRouteCheck(actor, c) ==
    IF ~Exists(c) THEN 404
    ELSE IF complaints[c].status /= "resolved" THEN 400
    ELSE IF complaints[c].userId /= actor THEN 403
    ELSE 0

\* pre('save') of a new feedback: TRUE when next() is called, FALSE when it throws
feedbackPreSave(c, u) ==
    /\ Exists(c)
    /\ complaints[c].status = "resolved"
    /\ ~HasFeedback(c, u)

InsertFeedback(c, u) ==
    /\ feedbacks' = feedbacks \cup
                        {[id |-> nextFid + 1, complaintId |-> c, userId |-> u]}
    /\ nextFid' = nextFid + 1

\* POST /api/feedback, one request at a time
PostFeedback(actor, c) ==
    /\ nextFid < MaxFeedbacks
    /\ IF FeedbackRouteCheck(actor, c) /= 0
       THEN /\ Done("feedback", actor, c, FeedbackRouteCheck(actor, c))
            /\ UNCHANGED <<feedbacks, nextFid>>
       ELSE IF HasFeedback(c, actor)
       THEN /\ Done("feedback", actor, c, 400)
            /\ UNCHANGED <<feedbacks, nextFid>>
       ELSE IF ~feedbackPreSave(c, actor)
       THEN /\ Done("feedback", actor, c, 500)
            /\ UNCHANGED <<feedbacks, nextFid>>
       ELSE /\ InsertFeedback(c, actor)
            /\ Done("feedback", actor, c, 201)
    /\ UNCHANGED <<users, sensorVars, now, complaints, usedIds, inflight>>

\* seedDatabase: new Feedback({complaintId, userId: complaint.userId}).save()
\* for each complaint it created as resolved
SeedFeedback(c) ==
    /\ nextFid < MaxFeedbacks
    /\ Exists(c)
    /\ complaints[c].origin = "seed"
    /\ complaints[c].status = "resolved"
    /\ IF feedbackPreSave(c, complaints[c].userId)
       THEN /\ InsertFeedback(c, complaints[c].userId)
            /\ Done("seed-feedback", complaints[c].userId, c, 0)
       ELSE /\ Done("seed-feedback", complaints[c].userId, c, 500)
            /\ UNCHANGED <<feedbacks, nextFid>>
    /\ UNCHANGED <<users, sensorVars, now, complaints, usedIds, inflight>>

----------------------------------------------------------------------------
(* Requests that overlap: a handler gives up control at each await, and the *)
(* other requests run between its database calls.                            *)

Idle == [op |-> "idle"]

Fly(r, q) == inflight' = [inflight EXCEPT ![r] = q]

\* POST /api/complaints/:id/resolve up to the answer of findById (line 294)
ResolveRead(r, actor, c) ==
    /\ inflight[r] = Idle
    /\ IF ~requireAdmin(actor)
       THEN /\ Done("resolve", actor, c, 403)
            /\ UNCHANGED inflight
       ELSE IF ~Exists(c)
       THEN /\ Done("resolve", actor, c, 404)
            /\ UNCHANGED inflight
       ELSE /\ Fly(r, [op |-> "resolve", pc |-> "loaded", actor |-> actor,
                       cid |-> c, doc |-> complaints[c]])
            /\ UNCHANGED lastOp
    /\ UNCHANGED <<users, sensorVars, now, complaints, usedIds, feedbacks, nextFid>>

\* ... and from there to the end of complaint.resolve() (lines 300-304)
ResolveCommit(r) ==
    /\ inflight[r].op = "resolve"
    /\ LET q == inflight[r]
       IN IF q.doc.status = "resolved"
          THEN /\ Done("resolve", q.actor, q.cid, 400)
               /\ UNCHANGED complaints
          ELSE IF ~Exists(q.cid)
          THEN /\ Done("resolve", q.actor, q.cid, 500)
               /\ UNCHANGED complaints
          ELSE /\ Store(q.cid, SaveComplaint(complaints[q.cid], q.doc,
                                             resolve(q.doc, q.actor, now), now))
               /\ Done("resolve", q.actor, q.cid, 200)
    /\ Fly(r, Idle)
    /\ UNCHANGED <<users, sensorVars, now, usedIds, feedbacks, nextFid>>

\* POST /api/feedback up to the answer of Complaint.findById (line 129)
FeedbackStart(r, actor, c) ==
    /\ inflight[r] = Idle
    /\ nextFid < MaxFeedbacks
    /\ IF FeedbackRouteCheck(actor, c) /= 0
       THEN /\ Done("feedback", actor, c, FeedbackRouteCheck(actor, c))
            /\ UNCHANGED inflight
       ELSE /\ Fly(r, [op |-> "feedback", pc |-> "findExisting",
                       actor |-> actor, cid |-> c])
            /\ UNCHANGED lastOp
    /\ UNCHANGED <<users, sensorVars, now, complaints, usedIds, feedbacks, nextFid>>

\* the answer of Feedback.findOne (line 144), then feedback.save() is called
FeedbackFindExisting(r) ==
    /\ inflight[r].op = "feedback" /\ inflight[r].pc = "findExisting"
    /\ LET q == inflight[r]
       IN IF HasFeedback(q.cid, q.actor)
          THEN /\ Done("feedback", q.actor, q.cid, 400)
               /\ Fly(r, Idle)
          ELSE /\ Fly(r, [q EXCEPT !.pc = "hookComplaint"])
               /\ UNCHANGED lastOp
    /\ UNCHANGED <<users, sensorVars, now, complaints, usedIds, feedbacks, nextFid>>

\* pre('save'): the answer of Complaint.findById (Feedback.js 88-96)
FeedbackHookComplaint(r) ==
    /\ inflight[r].op = "feedback" /\ inflight[r].pc = "hookComplaint"
    /\ LET q == inflight[r]
       IN IF ~Exists(q.cid) \/ complaints[q.cid].status /= "resolved"
          THEN /\ Done("feedback", q.actor, q.cid, 500)
               /\ Fly(r, Idle)
          ELSE /\ Fly(r, [q EXCEPT !.pc = "hookExisting"])
               /\ UNCHANGED lastOp
    /\ UNCHANGED <<users, sensorVars, now, complaints, usedIds, feedbacks, nextFid>>

\* pre('save'): the answer of findOne (Feedback.js 99-106)
FeedbackHookExisting(r) ==
    /\ inflight[r].op = "feedback" /\ inflight[r].pc = "hookExisting"
    /\ LET q == inflight[r]
       IN IF HasFeedback(q.cid, q.actor)
          THEN /\ Done("feedback", q.actor, q.cid, 500)
               /\ Fly(r, Idle)
          ELSE /\ Fly(r, [q EXCEPT !.pc = "insert"])
               /\ UNCHANGED lastOp
    /\ UNCHANGED <<users, sensorVars, now, complaints, usedIds, feedbacks, nextFid>>

\* the insert that save() sends after its hooks
FeedbackInsert(r) ==
    /\ inflight[r].op = "feedback" /\ inflight[r].pc = "insert"
    /\ InsertFeedback(inflight[r].cid, inflight[r].actor)
    /\ Done("feedback", inflight[r].actor, inflight[r].cid, 201)
    /\ Fly(r, Idle)
    /\ UNCHANGED <<users, sensorVars, now, complaints, usedIds>>

----------------------------------------------------------------------------
(* models/Sensor.js *)

HistoryCap == 1000
MaxLevel == 100        \* dataPoints.length > 1000, slice(-1000)
CriticalNum == 3          \* ratio >= 1.5, as the fraction 3/2
CriticalDen == 2
WarningNum == 1           \* ratio >= 1.0, as the fraction 1/1
WarningDen == 1

MaxPosts == 2             \* data points posted in one run
MaxAlerts == 2            \* alerts added in one run
MaxMaintenance == 1       \* maintenance records added in one run
MaxRatioValue == 6        \* the status derivation is evaluated on -6..6 and the samples

SensorIds == {"s1"}
SensorValues == {0, 3}
SensorActors == {"admin1", "user1"}
Levels == {Unset, 15}

\* cv / tv >= num / den, the quotient taken as JavaScript takes it: x / 0 is
\* Infinity for x > 0 and -Infinity for x < 0, 0 / 0 is NaN, and every
\* comparison with NaN is false.
RatioAtLeast(cv, tv, num, den) ==
    IF tv > 0 THEN cv * den >= num * tv
    ELSE IF tv < 0 THEN cv * den <= num * tv
    ELSE cv > 0

\* deriveStatus with the critical bound taken strictly (ratio > 1.5)
deriveStatusStrict(cv, tv) ==
    IF RatioAtLeast(cv, tv, CriticalNum, CriticalDen)
       /\ ~(tv /= 0 /\ cv * CriticalDen = CriticalNum * tv)
    THEN "critical"
    ELSE IF RatioAtLeast(cv, tv, WarningNum, WarningDen) THEN "warning"
    ELSE "normal"

\* the status the pre-save hook assigns (Sensor.js 151-159)
deriveStatus(cv, tv) ==
    IF RatioAtLeast(cv, tv, CriticalNum, CriticalDen) THEN "critical"
    ELSE IF RatioAtLeast(cv, tv, WarningNum, WarningDen) THEN "warning"
    ELSE "normal"

\* sensorPreSave with the status recomputed only when currentValue is modified
sensorPreSaveCvOnly(doc, cvModified, tvModified) ==
    IF cvModified
    THEN [doc EXCEPT !.status = deriveStatus(doc.currentValue, doc.thresholdValue),
                     !.lastReading = doc.currentValue]
    ELSE doc

\* pre('save'): cvModified is this.isModified('currentValue'), tvModified is
\* this.isModified('thresholdValue')
sensorPreSave(doc, cvModified, tvModified) ==
    LET d1 == IF cvModified \/ tvModified
              THEN [doc EXCEPT !.status =
                                   deriveStatus(doc.currentValue, doc.thresholdValue)]
              ELSE doc
    IN IF cvModified THEN [d1 EXCEPT !.lastReading = d1.currentValue] ELSE d1

\* new Sensor({currentValue, thresholdValue, ...}) with the schema defaults
NewSensor(cv, tv) ==
    [currentValue |-> cv, thresholdValue |-> tv, status |-> "normal",
     isActive |-> TRUE, lastReading |-> Unset, dataPoints |-> <<>>,
     alerts |-> <<>>, maintenance |-> 0,
     batteryLevel |-> Unset, signalStrength |-> Unset]

\* document.save() of a loaded sensor, one request at a time
SaveSensor(orig, local) ==
    sensorPreSave(local, local.currentValue /= orig.currentValue,
                  local.thresholdValue /= orig.thresholdValue)

\* LastPoints keeping the oldest points: slice(0, HistoryCap)
LastPointsKeepOldest(dp) ==
    IF Len(dp) > HistoryCap THEN SubSeq(dp, 1, HistoryCap) ELSE dp

\* dataPoints.slice(-HistoryCap)
LastPoints(dp) ==
    IF Len(dp) > HistoryCap
    THEN SubSeq(dp, Len(dp) - HistoryCap + 1, Len(dp))
    ELSE dp

\* methods.addDataPoint: the assignments, then save()
addDataPoint(doc, value) ==
    SaveSensor(doc, [doc EXCEPT !.currentValue = value,
                                !.dataPoints = LastPoints(Append(@, value))])

\* methods.addAlert: the pushed subdocument gets a fresh _id and the schema
\* defaults (isAcknowledged false, no acknowledger, no acknowledgedAt)
addAlert(doc) ==
    SaveSensor(doc, [doc EXCEPT !.alerts =
                         Append(@, [id |-> Len(@) + 1,
                                    isAcknowledged |-> FALSE,
                                    acknowledgedBy |-> NoUser,
                                    acknowledgedAt |-> Unset])])

\* acknowledgeAlert marking every alert of the sensor
acknowledgeAlertAll(doc, i, userId) ==
    SaveSensor(doc, IF i \in DOMAIN doc.alerts
                    THEN [doc EXCEPT !.alerts =
                             [k \in DOMAIN @ |->
                                 [@[k] EXCEPT !.isAcknowledged = TRUE,
                                              !.acknowledgedBy = userId,
                                              !.acknowledgedAt = now]]]
                    ELSE doc)

\* methods.acknowledgeAlert: i is the place of the alert with id alertId, 0 when
\* this.alerts.id(alertId) finds none
acknowledgeAlert(doc, i, userId) ==
    SaveSensor(doc, IF i \in DOMAIN doc.alerts
                    THEN [doc EXCEPT !.alerts[i].isAcknowledged = TRUE,
                                     !.alerts[i].acknowledgedBy = userId,
                                     !.alerts[i].acknowledgedAt = now]
                    ELSE doc)

\* methods.addMaintenanceRecord
addMaintenanceRecord(doc) ==
    SaveSensor(doc, [doc EXCEPT !.maintenance = @ + 1])

----------------------------------------------------------------------------
(* routes/sensors.js, one request at a time *)

SensorExists(s) == s \in DOMAIN sensors

StoreSensor(s, doc) ==
    sensors' = [x \in DOMAIN sensors \cup {s} |->
                   IF x = s THEN doc ELSE sensors[x]]

\* POST /api/sensors
CreateSensor(actor, s, cv, tv) ==
    /\ ~SensorExists(s)
    /\ IF ~requireAdmin(actor)
       THEN /\ Done("sensor-create", actor, s, 403)
            /\ UNCHANGED sensors
       ELSE /\ StoreSensor(s, sensorPreSave(NewSensor(cv, tv), TRUE, TRUE))
            /\ Done("sensor-create", actor, s, 201)
    /\ UNCHANGED <<users, coreVars, posted, nPosts, derived>>

\* PUT /api/sensors/:id
UpdateSensor(actor, s, cv, tv) ==
    /\ IF ~requireAdmin(actor)
       THEN /\ Done("sensor-update", actor, s, 403)
            /\ UNCHANGED sensors
       ELSE IF ~SensorExists(s)
       THEN /\ Done("sensor-update", actor, s, 404)
            /\ UNCHANGED sensors
       ELSE /\ StoreSensor(s, SaveSensor(sensors[s],
                    [sensors[s] EXCEPT !.currentValue = cv, !.thresholdValue = tv]))
            /\ Done("sensor-update", actor, s, 200)
    /\ UNCHANGED <<users, coreVars, posted, nPosts, derived>>

\* DELETE /api/sensors/:id
DeleteSensor(actor, s) ==
    /\ IF ~requireAdmin(actor)
       THEN /\ Done("sensor-delete", actor, s, 403)
            /\ UNCHANGED sensors
       ELSE IF ~SensorExists(s)
       THEN /\ Done("sensor-delete", actor, s, 404)
            /\ UNCHANGED sensors
       ELSE /\ StoreSensor(s, SaveSensor(sensors[s],
                                         [sensors[s] EXCEPT !.isActive = FALSE]))
            /\ Done("sensor-delete", actor, s, 200)
    /\ UNCHANGED <<users, coreVars, posted, nPosts, derived>>

\* PostData without the isActive check
PostDataAnySensor(actor, s, value, batteryLevel, signalStrength) ==
    /\ nPosts < MaxPosts
    /\ IF ~SensorExists(s)
       THEN /\ Done("sensor-data", actor, s, 404)
            /\ UNCHANGED <<sensors, posted, nPosts>>
       ELSE LET d1 == addDataPoint(sensors[s], value)
                d2 == [d1 EXCEPT
                         !.batteryLevel =
                             IF batteryLevel = Unset THEN @ ELSE batteryLevel,
                         !.signalStrength =
                             IF signalStrength = Unset THEN @ ELSE signalStrength]
            IN /\ StoreSensor(s, SaveSensor(d1, d2))
               /\ posted' = Append(posted, value)
               /\ nPosts' = nPosts + 1
               /\ Done("sensor-data", actor, s, 200)
    /\ UNCHANGED <<users, coreVars, derived>>

\* POST /api/sensors/:id/data
PostData(actor, s, value, batteryLevel, signalStrength) ==
    /\ nPosts < MaxPosts
    /\ IF ~SensorExists(s)
       THEN /\ Done("sensor-data", actor, s, 404)
            /\ UNCHANGED <<sensors, posted, nPosts>>
       ELSE IF ~sensors[s].isActive
       THEN /\ Done("sensor-data", actor, s, 400)
            /\ UNCHANGED <<sensors, posted, nPosts>>
       ELSE LET d1 == addDataPoint(sensors[s], value)
                d2 == [d1 EXCEPT
                         !.batteryLevel =
                             IF batteryLevel = Unset THEN @ ELSE batteryLevel,
                         !.signalStrength =
                             IF signalStrength = Unset THEN @ ELSE signalStrength]
            IN /\ StoreSensor(s, SaveSensor(d1, d2))
               /\ posted' = Append(posted, value)
               /\ nPosts' = nPosts + 1
               /\ Done("sensor-data", actor, s, 200)
    /\ UNCHANGED <<users, coreVars, derived>>

\* POST /api/sensors/:id/alert
AddAlert(actor, s) ==
    /\ IF ~requireAdmin(actor)
       THEN /\ Done("sensor-alert", actor, s, 403)
            /\ UNCHANGED sensors
       ELSE IF ~SensorExists(s)
       THEN /\ Done("sensor-alert", actor, s, 404)
            /\ UNCHANGED sensors
       ELSE /\ Len(sensors[s].alerts) < MaxAlerts
            /\ StoreSensor(s, addAlert(sensors[s]))
            /\ Done("sensor-alert", actor, s, 200)
    /\ UNCHANGED <<users, coreVars, posted, nPosts, derived>>

\* POST /api/sensors/:id/alert/:alertId/acknowledge
AcknowledgeAlert(actor, s, i) ==
    /\ IF ~requireAdmin(actor)
       THEN /\ Done("sensor-ack", actor, s, 403)
            /\ UNCHANGED sensors
       ELSE IF ~SensorExists(s)
       THEN /\ Done("sensor-ack", actor, s, 404)
            /\ UNCHANGED sensors
       ELSE /\ StoreSensor(s, acknowledgeAlert(sensors[s], i, actor))
            /\ lastOp' = [op |-> "sensor-ack", actor |-> actor, cid |-> s,
                          code |-> 200, alert |-> i]
    /\ UNCHANGED <<users, coreVars, posted, nPosts, derived>>

\* POST /api/sensors/:id/maintenance
AddMaintenance(actor, s) ==
    /\ IF ~requireAdmin(actor)
       THEN /\ Done("sensor-maintenance", actor, s, 403)
            /\ UNCHANGED sensors
       ELSE IF ~SensorExists(s)
       THEN /\ Done("sensor-maintenance", actor, s, 404)
            /\ UNCHANGED sensors
       ELSE /\ sensors[s].maintenance < MaxMaintenance
            /\ StoreSensor(s, addMaintenanceRecord(sensors[s]))
            /\ Done("sensor-maintenance", actor, s, 200)
    /\ UNCHANGED <<users, coreVars, posted, nPosts, derived>>

\* one evaluation of the status derivation on the inputs held in derived
EvalStatus ==
    /\ derived.status = "unset"
    /\ derived' = [derived EXCEPT
                      !.status = deriveStatus(derived.cv, derived.tv)]
    /\ UNCHANGED <<users, coreVars, sensors, posted, nPosts, lastOp>>

\* healthScore without the floor at 0
healthScoreNoFloor(status, batteryLevel, signalStrength) ==
    LET s1 == IF status = "critical" THEN 100 - 40
              ELSE IF status = "warning" THEN 100 - 20
              ELSE IF status = "offline" THEN 100 - 60
              ELSE 100
        s2 == IF batteryLevel /= Unset /\ batteryLevel < 20 THEN s1 - 30
              ELSE IF batteryLevel /= Unset /\ batteryLevel < 50 THEN s1 - 15
              ELSE s1
    IN IF signalStrength /= Unset /\ signalStrength < 30 THEN s2 - 20
       ELSE IF signalStrength /= Unset /\ signalStrength < 60 THEN s2 - 10
       ELSE s2

\* virtual healthScore (a comparison with an unset level is false)
healthScore(status, batteryLevel, signalStrength) ==
    LET s1 == IF status = "critical" THEN 100 - 40
              ELSE IF status = "warning" THEN 100 - 20
              ELSE IF status = "offline" THEN 100 - 60
              ELSE 100
        s2 == IF batteryLevel /= Unset /\ batteryLevel < 20 THEN s1 - 30
              ELSE IF batteryLevel /= Unset /\ batteryLevel < 50 THEN s1 - 15
              ELSE s1
        s3 == IF signalStrength /= Unset /\ signalStrength < 30 THEN s2 - 20
              ELSE IF signalStrength /= Unset /\ signalStrength < 60 THEN s2 - 10
              ELSE s2
    IN IF s3 > 0 THEN s3 ELSE 0

\* one evaluation of the health score on the inputs held in derived
EvalHealth ==
    /\ derived.score = Unset
    /\ derived' = [derived EXCEPT
                      !.score = healthScore(derived.status, derived.batteryLevel,
                                            derived.signalStrength)]
    /\ UNCHANGED <<users, coreVars, sensors, posted, nPosts, lastOp>>

----------------------------------------------------------------------------
(* Initial states and specifications *)

EmptyColl == [x \in {} |-> 0]
NoOp == [op |-> "none", actor |-> NoUser, cid |-> "none", code |-> 0]
NotDerived == [cv |-> 0, tv |-> 0, status |-> "none"]

\* the accounts the seeder creates, all active
SeededUsers ==
    [u \in Users |-> [role |-> Role(u), isActive |-> TRUE, username |-> u,
                      email |-> SeedEmail[u], lastLogin |-> Unset]]

CoreInit ==
    /\ now = 0
    /\ users = SeededUsers
    /\ complaints = EmptyColl
    /\ usedIds = {}
    /\ feedbacks = {}
    /\ nextFid = 0
    /\ inflight = [r \in Reqs |-> Idle]
    /\ lastOp = NoOp

SensorInit ==
    /\ sensors = EmptyColl
    /\ posted = <<>>
    /\ nPosts = 0
    /\ derived = NotDerived

Init == CoreInit /\ SensorInit

UpdateBodies == [priority : Priorities \cup {Absent}, userId : Users \cup {Absent}]

\* bodies of POST /api/complaints, with fields the route does not read
CreateBodies ==
    [priority : Priorities \cup {Absent},
     status : {Absent, "resolved"},
     escalationLevel : {Unset, MaxEscalationLevel}]

\* the complaint and feedback requests, one at a time
Next ==
    \/ \E u \in Creators, b \in CreateBodies : CreateComplaint(u, b)
    \/ \E p \in SeedPriorities, st \in SeedStatuses, u \in Creators :
           SeedComplaint(p, st, u)
    \/ \E u \in Users, c \in ComplaintIds, b \in UpdateBodies :
           UpdateComplaint(u, c, b)
    \/ \E u \in Users, c \in ComplaintIds, b \in Users \cup {Absent} :
           DeleteComplaint(u, c, b)
    \/ \E u \in Users, c \in ComplaintIds : RespondComplaint(u, c)
    \/ \E u \in Users, c \in ComplaintIds : ResolveComplaint(u, c)
    \/ \E u \in Users, c \in ComplaintIds : EscalateComplaint(u, c)
    \/ \E u \in Users, c \in ComplaintIds : PostFeedback(u, c)
    \/ \E c \in ComplaintIds : SeedFeedback(c)
    \/ Tick

Spec == Init /\ [][Next]_vars

----------------------------------------------------------------------------
(* middleware authenticateToken and routes/users.js, one request at a time *)

\* authenticateToken: the token's user is found and active
authenticateToken(actor) ==
    actor \in DOMAIN users /\ users[actor].isActive

\* DELETE /api/users/:id
DeleteUser(actor, u) ==
    /\ authenticateToken(actor)
    /\ IF ~requireAdmin(actor)
       THEN /\ Done("user-delete", actor, u, 403)
            /\ UNCHANGED users
       ELSE IF u \notin DOMAIN users
       THEN /\ Done("user-delete", actor, u, 404)
            /\ UNCHANGED users
       ELSE IF u = actor
       THEN /\ Done("user-delete", actor, u, 400)
            /\ UNCHANGED users
       ELSE /\ users' = [x \in DOMAIN users \ {u} |-> users[x]]
            /\ Done("user-delete", actor, u, 200)
    /\ UNCHANGED <<coreVars, sensorVars>>

\* POST /api/users/:id/deactivate
DeactivateUser(actor, u) ==
    /\ authenticateToken(actor)
    /\ IF ~requireAdmin(actor)
       THEN /\ Done("user-deactivate", actor, u, 403)
            /\ UNCHANGED users
       ELSE IF u \notin DOMAIN users
       THEN /\ Done("user-deactivate", actor, u, 404)
            /\ UNCHANGED users
       ELSE IF u = actor \/ ~users[u].isActive
       THEN /\ Done("user-deactivate", actor, u, 400)
            /\ UNCHANGED users
       ELSE /\ users' = [users EXCEPT ![u].isActive = FALSE]
            /\ Done("user-deactivate", actor, u, 200)
    /\ UNCHANGED <<coreVars, sensorVars>>

\* POST /api/users/:id/activate
ActivateUser(actor, u) ==
    /\ authenticateToken(actor)
    /\ IF ~requireAdmin(actor)
       THEN /\ Done("user-activate", actor, u, 403)
            /\ UNCHANGED users
       ELSE IF u \notin DOMAIN users
       THEN /\ Done("user-activate", actor, u, 404)
            /\ UNCHANGED users
       ELSE IF users[u].isActive
       THEN /\ Done("user-activate", actor, u, 400)
            /\ UNCHANGED users
       ELSE /\ users' = [users EXCEPT ![u].isActive = TRUE]
            /\ Done("user-activate", actor, u, 200)
    /\ UNCHANGED <<coreVars, sensorVars>>

\* bodies of PUT /api/users/:id: role and isActive are optional
UserUpdateBodies ==
    [role : {Absent, "user", "admin"}]
        \cup [role : {Absent, "user", "admin"}, isActive : BOOLEAN]

\* PUT /api/users/:id
UpdateUser(actor, u, body) ==
    /\ authenticateToken(actor)
    /\ IF ~requireAdmin(actor)
       THEN /\ Done("user-update", actor, u, 403)
            /\ UNCHANGED users
       ELSE IF u \notin DOMAIN users
       THEN /\ Done("user-update", actor, u, 404)
            /\ UNCHANGED users
       ELSE IF u = actor /\ "isActive" \in DOMAIN body /\ body.isActive = FALSE
       THEN /\ Done("user-update", actor, u, 400)
            /\ UNCHANGED users
       ELSE /\ users' = [users EXCEPT
                            ![u].role = IF body.role /= Absent THEN body.role
                                        ELSE @,
                            ![u].isActive = IF "isActive" \in DOMAIN body
                                            THEN body.isActive ELSE @]
            /\ Done("user-update", actor, u, 200)
    /\ UNCHANGED <<coreVars, sensorVars>>

\* POST /api/users/:id/promote
PromoteUser(actor, u) ==
    /\ authenticateToken(actor)
    /\ IF ~requireAdmin(actor)
       THEN /\ Done("user-promote", actor, u, 403)
            /\ UNCHANGED users
       ELSE IF u \notin DOMAIN users
       THEN /\ Done("user-promote", actor, u, 404)
            /\ UNCHANGED users
       ELSE IF users[u].role = "admin"
       THEN /\ Done("user-promote", actor, u, 400)
            /\ UNCHANGED users
       ELSE /\ users' = [users EXCEPT ![u].role = "admin"]
            /\ Done("user-promote", actor, u, 200)
    /\ UNCHANGED <<coreVars, sensorVars>>

\* POST /api/users/:id/demote
DemoteUser(actor, u) ==
    /\ authenticateToken(actor)
    /\ IF ~requireAdmin(actor)
       THEN /\ Done("user-demote", actor, u, 403)
            /\ UNCHANGED users
       ELSE IF u \notin DOMAIN users
       THEN /\ Done("user-demote", actor, u, 404)
            /\ UNCHANGED users
       ELSE IF u = actor \/ users[u].role = "user"
       THEN /\ Done("user-demote", actor, u, 400)
            /\ UNCHANGED users
       ELSE /\ users' = [users EXCEPT ![u].role = "user"]
            /\ Done("user-demote", actor, u, 200)
    /\ UNCHANGED <<coreVars, sensorVars>>

\* the user routes, with the complaint and feedback requests that make
\* references to users; every request passes authenticateToken first
NextUsers ==
    \/ \E u \in RegularUsers, b \in CreateBodies :
           authenticateToken(u) /\ CreateComplaint(u, b)
    \/ \E u \in Users, c \in ComplaintIds :
           authenticateToken(u) /\ ResolveComplaint(u, c)
    \/ \E u \in Users, c \in ComplaintIds :
           authenticateToken(u) /\ PostFeedback(u, c)
    \/ \E a \in Users, u \in Users : DeleteUser(a, u)
    \/ \E a \in Users, u \in Users : DeactivateUser(a, u)
    \/ \E a \in Users, u \in Users : ActivateUser(a, u)
    \/ \E a \in Users, u \in Users, b \in UserUpdateBodies : UpdateUser(a, u, b)
    \/ \E a \in Users, u \in Users : PromoteUser(a, u)
    \/ \E a \in Users, u \in Users : DemoteUser(a, u)

SpecUsers == Init /\ [][NextUsers]_vars

\* a complaint as the collection can store it: any status of the schema's
\* enum, any priority, any level within the schema's range, filed on day 0
StoredComplaint(status, priority, level, urgent) ==
    [NewComplaint(priority, status, "user1", "stored") EXCEPT
        !.createdAt = 0,
        !.escalationLevel = level,
        !.isUrgent = urgent,
        !.actualResolutionTime = IF status = "resolved" THEN 0 ELSE Unset]

\* the days on which the requests start
StoredAges == {0, 7, 14, 21, 28}

InitStored ==
    /\ now \in StoredAges
    /\ \E st \in Statuses, p \in Priorities, l \in 0..MaxEscalationLevel,
          u \in BOOLEAN :
          complaints = [c \in ComplaintIds |-> StoredComplaint(st, p, l, u)]
    /\ usedIds = ComplaintIds
    /\ feedbacks = {}
    /\ nextFid = 0
    /\ inflight = [r \in Reqs |-> Idle]
    /\ lastOp = NoOp
    /\ users = SeededUsers
    /\ SensorInit

\* the requests on a stored complaint, one at a time
NextStored ==
    \/ \E u \in Users, c \in ComplaintIds, b \in UpdateBodies :
           UpdateComplaint(u, c, b)
    \/ \E u \in Users, c \in ComplaintIds, b \in Users \cup {Absent} :
           DeleteComplaint(u, c, b)
    \/ \E u \in Users, c \in ComplaintIds : RespondComplaint(u, c)
    \/ \E u \in Users, c \in ComplaintIds : ResolveComplaint(u, c)
    \/ \E u \in Users, c \in ComplaintIds : EscalateComplaint(u, c)
    \/ Tick

SpecStored == InitStored /\ [][NextStored]_vars

\* overlapping resolve and feedback requests
NextConc ==
    \/ \E u \in Creators, b \in CreateBodies : CreateComplaint(u, b)
    \/ \E r \in Reqs, u \in Users, c \in ComplaintIds : ResolveRead(r, u, c)
    \/ \E r \in Reqs : ResolveCommit(r)
    \/ \E r \in Reqs, u \in Users, c \in ComplaintIds : FeedbackStart(r, u, c)
    \/ \E r \in Reqs : FeedbackFindExisting(r)
    \/ \E r \in Reqs : FeedbackHookComplaint(r)
    \/ \E r \in Reqs : FeedbackHookExisting(r)
    \/ \E r \in Reqs : FeedbackInsert(r)
    \/ Tick

SpecConc == Init /\ [][NextConc]_vars

\* the sensor requests, one at a time
NextSensor ==
    \/ \E u \in SensorActors, s \in SensorIds, cv \in SensorValues, tv \in SensorValues :
           CreateSensor(u, s, cv, tv)
    \/ \E u \in SensorActors, s \in SensorIds, cv \in SensorValues, tv \in SensorValues :
           UpdateSensor(u, s, cv, tv)
    \/ \E u \in SensorActors, s \in SensorIds : DeleteSensor(u, s)
    \/ \E u \in SensorActors, s \in SensorIds, v \in SensorValues, b \in Levels, g \in Levels :
           PostData(u, s, v, b, g)
    \/ \E u \in SensorActors, s \in SensorIds : AddAlert(u, s)
    \/ \E u \in SensorActors, s \in SensorIds, i \in 0..MaxAlerts : AcknowledgeAlert(u, s, i)
    \/ \E u \in SensorActors, s \in SensorIds : AddMaintenance(u, s)

SpecSensor == Init /\ [][NextSensor]_vars

\* a sensor whose history holds n points already
HistoryStartLens == {0, HistoryCap - 2, HistoryCap - 1, HistoryCap}

PointAt(i) == <<0, 2, 3>>[(i % 3) + 1]

HistoryDoc(n) ==
    LET dp == [i \in 1..n |-> PointAt(i)]
        cv == IF n = 0 THEN 1 ELSE PointAt(n)
    IN sensorPreSave([NewSensor(cv, 2) EXCEPT !.dataPoints = dp], TRUE, TRUE)

InitHistory ==
    /\ CoreInit
    /\ \E n \in HistoryStartLens :
          /\ sensors = [s \in SensorIds |-> HistoryDoc(n)]
          /\ posted = [i \in 1..n |-> PointAt(i)]
    /\ nPosts = 0
    /\ derived = NotDerived

NextHistory ==
    \E u \in SensorActors, s \in SensorIds, v \in SensorValues, b \in Levels, g \in Levels :
        PostData(u, s, v, b, g)

SpecHistory == InitHistory /\ [][NextHistory]_vars

\* the status derivation as a function of its two inputs
RatioValues == (-MaxRatioValue .. MaxRatioValue) \cup {60, 80, 85}

InitStatus ==
    /\ CoreInit
    /\ sensors = EmptyColl
    /\ posted = <<>>
    /\ nPosts = 0
    /\ derived \in [cv : RatioValues, tv : RatioValues, status : {"unset"}]

NextStatus == EvalStatus

SpecStatus == InitStatus /\ [][NextStatus]_vars

\* the statuses of the schema's enum
SensorStatuses == {"normal", "warning", "critical", "offline"}

InitHealth ==
    /\ CoreInit
    /\ sensors = EmptyColl
    /\ posted = <<>>
    /\ nPosts = 0
    /\ derived \in [status : SensorStatuses, batteryLevel : 0..MaxLevel,
                     signalStrength : 0..MaxLevel, score : {Unset}]

NextHealth == EvalHealth

SpecHealth == InitHealth /\ [][NextHealth]_vars

----------------------------------------------------------------------------
(* routes/auth.js, POST /api/auth/register; the requests overlap *)

MaxRegistrations == 2     \* the number of registrations that get past the check

NewUserIds == {"n1", "n2", "n3"}
Usernames == {"user1", "alice", "bob"}
Emails == {"user1@mail", "alice@mail", "bob@mail"}

\* the accounts that registration has created
Registered == DOMAIN users \ Users

\* User.findOne({ $or: [{ email }, { username }] }) finds a document
findOneUser(username, email) ==
    \E x \in DOMAIN users :
        users[x].email = email \/ users[x].username = username

\* new User({ username, email, ... })
NewUser(username, email) ==
    [role |-> "user", isActive |-> TRUE, username |-> username,
     email |-> email, lastLogin |-> Unset]

FreshUserId == CHOOSE x \in NewUserIds \ DOMAIN users : TRUE

\* the insert of the User collection: the document is stored under its id
InsertUser(id, doc) ==
    users' = [x \in DOMAIN users \cup {id} |-> IF x = id THEN doc ELSE users[x]]

\* the handler up to the answer of User.findOne (lines 59-65)
RegisterFind(r, username, email) ==
    /\ inflight[r] = Idle
    /\ Cardinality(Registered)
         + Cardinality({q \in Reqs : inflight[q].op = "register"
                                     /\ inflight[q].pc = "checked"})
         < MaxRegistrations
    /\ IF findOneUser(username, email)
       THEN /\ Done("register", NoUser, "none", 400)
            /\ UNCHANGED inflight
       ELSE /\ Fly(r, [op |-> "register", pc |-> "checked", uid |-> NoUser,
                       username |-> username, email |-> email])
            /\ UNCHANGED lastOp
    /\ UNCHANGED <<users, sensorVars, now, complaints, usedIds, feedbacks, nextFid>>

\* ... from there to the end of the first user.save() (lines 68-77)
RegisterSave(r) ==
    /\ inflight[r].op = "register"
    /\ inflight[r].pc = "checked"
    /\ InsertUser(FreshUserId, NewUser(inflight[r].username, inflight[r].email))
    /\ Fly(r, [inflight[r] EXCEPT !.pc = "saved", !.uid = FreshUserId])
    /\ UNCHANGED <<lastOp, sensorVars, now, complaints, usedIds, feedbacks, nextFid>>

\* ... and the save of lastLogin and the answer (lines 83-92)
RegisterFinish(r) ==
    /\ inflight[r].op = "register"
    /\ inflight[r].pc = "saved"
    /\ users' = [users EXCEPT ![inflight[r].uid].lastLogin = now]
    /\ Done("register", inflight[r].uid, "none", 201)
    /\ Fly(r, Idle)
    /\ UNCHANGED <<sensorVars, now, complaints, usedIds, feedbacks, nextFid>>

NextRegister ==
    \/ \E r \in Reqs, n \in Usernames, e \in Emails : RegisterFind(r, n, e)
    \/ \E r \in Reqs : RegisterSave(r)
    \/ \E r \in Reqs : RegisterFinish(r)

SpecRegister == Init /\ [][NextRegister]_vars

----------------------------------------------------------------------------
(* DELETE /api/complaints/:id overlapping with the resolve request *)

\* the handler up to the answer of Complaint.findById (line 212)
DeleteRead(r, actor, c, bodyUserId) ==
    /\ inflight[r] = Idle
    /\ IF ~requireOwnershipOrAdmin(actor, Absent, bodyUserId)
       THEN /\ Done("delete", actor, c, 403)
            /\ UNCHANGED inflight
       ELSE IF ~Exists(c)
       THEN /\ Done("delete", actor, c, 404)
            /\ UNCHANGED inflight
       ELSE /\ Fly(r, [op |-> "delete", pc |-> "loaded", actor |-> actor,
                       cid |-> c, doc |-> complaints[c]])
            /\ UNCHANGED lastOp
    /\ UNCHANGED <<users, sensorVars, now, complaints, usedIds, feedbacks, nextFid>>

\* ... and from there to the answer (lines 218-233): the status test is made
\* on the loaded document, findByIdAndDelete removes whatever is stored
DeleteCommit(r) ==
    /\ inflight[r].op = "delete"
    /\ LET q == inflight[r]
       IN IF q.doc.status /= "pending"
          THEN /\ Done("delete", q.actor, q.cid, 400)
               /\ UNCHANGED complaints
          ELSE /\ complaints' = [x \in DOMAIN complaints \ {q.cid} |-> complaints[x]]
               /\ Done("delete", q.actor, q.cid, 200)
    /\ Fly(r, Idle)
    /\ UNCHANGED <<users, sensorVars, now, usedIds, feedbacks, nextFid>>

\* overlapping delete and resolve requests
NextRace ==
    \/ \E u \in Creators, b \in CreateBodies : CreateComplaint(u, b)
    \/ \E r \in Reqs, u \in Users, c \in ComplaintIds : ResolveRead(r, u, c)
    \/ \E r \in Reqs : ResolveCommit(r)
    \/ \E r \in Reqs, u \in Users, c \in ComplaintIds, b \in Users \cup {Absent} :
           DeleteRead(r, u, c, b)
    \/ \E r \in Reqs : DeleteCommit(r)

SpecRace == Init /\ [][NextRace]_vars

----------------------------------------------------------------------------
(* POST /api/sensors/:id/data, the requests overlapping.  The documents    *)
(* carry Mongoose's version key (__v, here version).  A save whose only     *)
(* array change is a push sends $push and increments the version; a save    *)
(* that assigned the array sends $set of the whole array under the          *)
(* condition that the stored version is the loaded one, and fails with a    *)
(* VersionError otherwise.                                                  *)

Versioned(doc) == doc @@ [version |-> 0]

\* the paths other than dataPoints that save() sends: those whose value
\* differs from the loaded one
WriteModified(stored, orig, local) ==
    [stored EXCEPT
        !.currentValue = IF local.currentValue /= orig.currentValue
                         THEN local.currentValue ELSE @,
        !.status = IF local.status /= orig.status THEN local.status ELSE @,
        !.lastReading = IF local.lastReading /= orig.lastReading
                        THEN local.lastReading ELSE @,
        !.batteryLevel = IF local.batteryLevel /= orig.batteryLevel
                         THEN local.batteryLevel ELSE @,
        !.signalStrength = IF local.signalStrength /= orig.signalStrength
                           THEN local.signalStrength ELSE @]

DataInFlight == {q \in Reqs : inflight[q].op = "sensor-data"}

\* the handler up to the answer of Sensor.findById (lines 261-276)
DataRead(r, actor, s, value, batteryLevel, signalStrength) ==
    /\ inflight[r] = Idle
    /\ nPosts + Cardinality(DataInFlight) < MaxPosts
    /\ IF ~SensorExists(s)
       THEN /\ Done("sensor-data", actor, s, 404)
            /\ UNCHANGED inflight
       ELSE IF ~sensors[s].isActive
       THEN /\ Done("sensor-data", actor, s, 400)
            /\ UNCHANGED inflight
       ELSE /\ Fly(r, [op |-> "sensor-data", pc |-> "loaded", actor |-> actor,
                       cid |-> s, value |-> value,
                       batteryLevel |-> batteryLevel,
                       signalStrength |-> signalStrength,
                       doc |-> sensors[s]])
            /\ UNCHANGED lastOp
    /\ UNCHANGED <<users, sensorVars, now, complaints, usedIds, feedbacks, nextFid>>

\* ... await sensor.addDataPoint(value) (line 279, Sensor.js 174-187)
DataAddPoint(r) ==
    /\ inflight[r].op = "sensor-data"
    /\ inflight[r].pc = "loaded"
    /\ LET q == inflight[r]
           s == q.cid
           pushed == Append(q.doc.dataPoints, q.value)
           assigned == Len(pushed) > HistoryCap
           local == SaveSensor(q.doc, [q.doc EXCEPT
                                          !.currentValue = q.value,
                                          !.dataPoints = LastPoints(pushed)])
       IN IF assigned /\ sensors[s].version /= q.doc.version
          THEN /\ Done("sensor-data", q.actor, s, 500)
               /\ Fly(r, Idle)
               /\ UNCHANGED <<sensors, posted, nPosts>>
          ELSE /\ StoreSensor(s,
                     [WriteModified(sensors[s], q.doc, local) EXCEPT
                         !.dataPoints = IF assigned THEN local.dataPoints
                                        ELSE Append(@, q.value),
                         !.version = @ + 1])
               /\ posted' = Append(posted, q.value)
               /\ nPosts' = nPosts + 1
               /\ Fly(r, [q EXCEPT !.pc = "added",
                                   !.doc = [local EXCEPT !.version = @ + 1]])
               /\ UNCHANGED lastOp
    /\ UNCHANGED <<users, derived, now, complaints, usedIds, feedbacks, nextFid>>

\* ... the battery and signal levels, the second save and the answer
\* (lines 282-301)
DataSaveLevels(r) ==
    /\ inflight[r].op = "sensor-data"
    /\ inflight[r].pc = "added"
    /\ LET q == inflight[r]
           local == [q.doc EXCEPT
                        !.batteryLevel =
                            IF q.batteryLevel = Unset THEN @ ELSE q.batteryLevel,
                        !.signalStrength =
                            IF q.signalStrength = Unset THEN @ ELSE q.signalStrength]
       IN /\ StoreSensor(q.cid, WriteModified(sensors[q.cid], q.doc,
                                              SaveSensor(q.doc, local)))
          /\ Done("sensor-data", q.actor, q.cid, 200)
    /\ Fly(r, Idle)
    /\ UNCHANGED <<users, posted, nPosts, derived, now, complaints, usedIds,
                   feedbacks, nextFid>>

InitData ==
    /\ CoreInit
    /\ \E n \in HistoryStartLens :
          /\ sensors = [s \in SensorIds |-> Versioned(HistoryDoc(n))]
          /\ posted = [i \in 1..n |-> PointAt(i)]
    /\ nPosts = 0
    /\ derived = NotDerived

NextData ==
    \/ \E r \in Reqs, u \in SensorActors, s \in SensorIds, v \in SensorValues,
          b \in Levels, g \in Levels : DataRead(r, u, s, v, b, g)
    \/ \E r \in Reqs : DataAddPoint(r)
    \/ \E r \in Reqs : DataSaveLevels(r)

SpecData == InitData /\ [][NextData]_vars

----------------------------------------------------------------------------
(* The presentation layer: the DataProvider (components/Layout/Header.tsx), *)
(* the admin page (pages/AdminComplaints.tsx) and the complaint form        *)
(* (pages/ComplaintForm.tsx).  complaints and sensors are the provider's    *)
(* state; no request goes to the backend.                                   *)

\* mockComplaints: id -> the fields the pages change or test
mockComplaints ==
    [c \in {"1", "2", "3", "4"} |->
        [status |-> CASE c = "1" -> "pending"
                      [] c = "2" -> "in-progress"
                      [] OTHER -> "resolved",
         priority |-> CASE c = "1" -> "high"
                        [] c = "4" -> "low"
                        [] OTHER -> "medium",
         userId |-> "user1",
         adminResponse |-> IF c = "1" THEN Absent ELSE "text"]]

\* mockSensors, the values in tenths of the unit (8.5 ppm is 85)
mockSensors ==
    [s \in {"1", "2", "3", "4"} |->
        [currentValue |-> CASE s = "1" -> 150 [] s = "2" -> 85
                            [] s = "3" -> 650 [] OTHER -> 850,
         thresholdValue |-> CASE s = "1" -> 200 [] s = "2" -> 60
                              [] s = "3" -> 600 [] OTHER -> 800,
         status |-> CASE s = "1" -> "normal" [] s = "2" -> "warning"
                      [] s = "3" -> "warning" [] OTHER -> "critical"]]

FormIds == {"5"}
CardIds == DOMAIN mockComplaints \cup FormIds
ResponseTexts == {"", "text"}

\* updateComplaint(id, updates): { ...complaint, ...updates } for the
\* complaint with that id
updateComplaint(id, updates) ==
    complaints' =
        [c \in DOMAIN complaints |->
            IF c = id
            THEN [f \in DOMAIN complaints[c] |->
                     IF f \in DOMAIN updates THEN updates[f] ELSE complaints[c][f]]
            ELSE complaints[c]]

\* addComplaint from the form's handleSubmit
addComplaint(id, priority, userId) ==
    /\ id \notin DOMAIN complaints
    /\ complaints' =
           [c \in DOMAIN complaints \cup {id} |->
               IF c = id
               THEN [status |-> "pending", priority |-> priority,
                     userId |-> userId, adminResponse |-> Absent]
               ELSE complaints[c]]
    /\ Done("ui-add", userId, id, 0)
    /\ UNCHANGED <<users, sensorVars, now, usedIds, feedbacks, nextFid, inflight>>

\* the status selector of a complaint card
handleStatusUpdate(actor, complaintId, newStatus) ==
    /\ complaintId \in DOMAIN complaints
    /\ updateComplaint(complaintId, [status |-> newStatus])
    /\ Done("ui-status", actor, complaintId, 0)
    /\ UNCHANGED <<users, sensorVars, now, usedIds, feedbacks, nextFid, inflight>>

\* the Send Response button, adminResponse being the text typed
handleResponseSubmit(actor, complaintId, adminResponse) ==
    /\ complaintId \in DOMAIN complaints
    /\ IF adminResponse /= ""
       THEN updateComplaint(complaintId, [adminResponse |-> adminResponse,
                                          status |-> "in-progress"])
       ELSE UNCHANGED complaints
    /\ Done("ui-respond", actor, complaintId, 0)
    /\ UNCHANGED <<users, sensorVars, now, usedIds, feedbacks, nextFid, inflight>>

InitUi ==
    /\ now = 0
    /\ users = SeededUsers
    /\ complaints = mockComplaints
    /\ usedIds = DOMAIN mockComplaints
    /\ feedbacks = {}
    /\ nextFid = 0
    /\ inflight = [r \in Reqs |-> Idle]
    /\ lastOp = NoOp
    /\ sensors = mockSensors
    /\ posted = <<>>
    /\ nPosts = 0
    /\ derived = NotDerived

NextUi ==
    \/ \E c \in FormIds, p \in Priorities, u \in Creators : addComplaint(c, p, u)
    \/ \E a \in Admins, c \in CardIds, st \in Statuses :
           handleStatusUpdate(a, c, st)
    \/ \E a \in Admins, c \in CardIds, t \in ResponseTexts :
           handleResponseSubmit(a, c, t)

SpecUi == InitUi /\ [][NextUi]_vars

----------------------------------------------------------------------------
(* The claims *)

OpenStatuses == {"pending", "in-progress"}
Kept == DOMAIN complaints \cap DOMAIN complaints'

\* C1: while a complaint is pending or in-progress, no save (create, update,
\* respond, manual escalate, with its age advancing between saves) lowers its
\* stored escalation level; the auto-escalation of the pre-save hook never
\* lowers a level that an earlier save or a manual escalate had raised.
C1_EscalationNeverDecreases ==
    [][\A c \in Kept :
           (complaints[c].status \in OpenStatuses
            /\ complaints'[c].status \in OpenStatuses)
           => complaints'[c].escalationLevel >= complaints[c].escalationLevel]_vars

\* C2: every update or delete of a complaint that a non-admin user who is not
\* its creator issues is answered with an authorization error (403) and leaves
\* the complaint as it was, whatever userId the body carries.
C2_NonOwnerCannotMutate ==
    [][(lastOp'.op \in {"update", "delete"}
        /\ Role(lastOp'.actor) /= "admin"
        /\ lastOp'.cid \in DOMAIN complaints
        /\ complaints[lastOp'.cid].userId /= lastOp'.actor)
       => (lastOp'.code = 403 /\ complaints' = complaints)]_vars

\* C3: in every state reached through the sensor operations, each sensor's
\* stored status is the one the ratio rule derives from its stored currentValue
\* and thresholdValue.
C3_StatusIsDerived ==
    \A s \in DOMAIN sensors :
        sensors[s].status = deriveStatus(sensors[s].currentValue,
                                         sensors[s].thresholdValue)

\* a threshold-only update has acted and the status followed it
C3_Witness ==
    /\ lastOp.op = "sensor-update" /\ lastOp.code = 200
    /\ \E s \in DOMAIN sensors :
          /\ sensors[s].status = "critical"
          /\ sensors[s].lastReading = sensors[s].currentValue
          /\ sensors[s].dataPoints /= <<>>
          /\ sensors[s].currentValue = sensors[s].dataPoints[Len(sensors[s].dataPoints)]

\* the quotient cv / tv is at least n / d (x / 0 is +-Infinity, 0 / 0 is NaN)
QuotientAtLeast(cv, tv, n, d) ==
    CASE tv > 0 -> d * cv >= n * tv
      [] tv < 0 -> d * cv <= n * tv
      [] OTHER  -> cv > 0

\* the quotient cv / tv is below n / d
QuotientBelow(cv, tv, n, d) ==
    CASE tv > 0 -> d * cv < n * tv
      [] tv < 0 -> d * cv > n * tv
      [] OTHER  -> cv < 0

Evaluated == derived.status /= "unset" /\ derived.status /= "none"

\* C4 as stated: for all current and threshold values the derivation yields
\* critical iff current/threshold >= 1.5, warning iff 1.0 <= current/threshold
\* < 1.5, normal iff current/threshold < 1.0, and never offline.
C4_AsStated ==
    Evaluated =>
        /\ derived.status = "critical" <=> QuotientAtLeast(derived.cv, derived.tv, 3, 2)
        /\ derived.status = "warning" <=>
               (QuotientAtLeast(derived.cv, derived.tv, 1, 1)
                /\ QuotientBelow(derived.cv, derived.tv, 3, 2))
        /\ derived.status = "normal" <=> QuotientBelow(derived.cv, derived.tv, 1, 1)
        /\ derived.status /= "offline"

\* C4, amended: the derivation yields critical iff current/threshold >= 1.5,
\* warning iff 1.0 <= current/threshold < 1.5, and normal iff
\* current/threshold < 1.0 or current = threshold = 0 (the quotient 0/0 is NaN,
\* which fails both comparisons); 85/80 and 8.5/6.0 both give warning; it never
\* yields offline.
C4_RatioRule ==
    Evaluated =>
        /\ derived.status = "critical" <=> QuotientAtLeast(derived.cv, derived.tv, 3, 2)
        /\ derived.status = "warning" <=>
               (QuotientAtLeast(derived.cv, derived.tv, 1, 1)
                /\ QuotientBelow(derived.cv, derived.tv, 3, 2))
        /\ derived.status = "normal" <=>
               (QuotientBelow(derived.cv, derived.tv, 1, 1)
                \/ (derived.cv = 0 /\ derived.tv = 0))
        /\ (derived.cv = 85 /\ derived.tv \in {60, 80}) => derived.status = "warning"
        /\ derived.status /= "offline"

\* the derivation has been evaluated on current = threshold = 0 and gave normal
C4_Witness == derived = [cv |-> 0, tv |-> 0, status |-> "normal"]

ResolveEnds(r) == inflight[r].op = "resolve" /\ inflight'[r] = Idle

\* C5: a resolve request on a complaint that is already resolved fails with a
\* state-precondition error (400), and once actualResolutionTime is set it has
\* the same value in every later state, under any interleaving of requests.
C5_ResolutionTimeSetOnce ==
    [][/\ \A c \in Kept :
             complaints[c].actualResolutionTime /= Unset
             => complaints'[c].actualResolutionTime
                    = complaints[c].actualResolutionTime
       /\ \A r \in Reqs :
             (ResolveEnds(r)
              /\ inflight[r].cid \in DOMAIN complaints
              /\ complaints[inflight[r].cid].status = "resolved")
             => lastOp'.code = 400]_vars

\* C6: in every reachable state there is at most one feedback record per
\* (complaint, user) pair, also when two submissions for the same pair overlap.
C6_OneFeedbackPerPair ==
    \A f \in feedbacks, g \in feedbacks :
        (f.complaintId = g.complaintId /\ f.userId = g.userId) => f = g

OwnResolved(c, u) ==
    /\ c \in DOMAIN complaints
    /\ complaints[c].status = "resolved"
    /\ complaints[c].userId = u

\* C7: a feedback submission succeeds only when the complaint exists, is
\* resolved and is owned by the submitting user; otherwise it fails with an
\* error and creates no record; so every stored feedback record references a
\* resolved complaint whose owner is the feedback's user.
C7_FeedbackOnlyForOwnResolved ==
    /\ [](\A f \in feedbacks : OwnResolved(f.complaintId, f.userId))
    /\ [][lastOp'.op = "feedback" =>
            /\ (feedbacks' /= feedbacks) =>
                   /\ OwnResolved(lastOp'.cid, lastOp'.actor)
                   /\ lastOp'.code = 201
                   /\ \E f \in feedbacks' :
                         /\ feedbacks' = feedbacks \cup {f}
                         /\ f.complaintId = lastOp'.cid
                         /\ f.userId = lastOp'.actor
            /\ ~OwnResolved(lastOp'.cid, lastOp'.actor) =>
                   /\ lastOp'.code \in {400, 403, 404}
                   /\ feedbacks' = feedbacks]_vars

\* the owner's feedback on a resolved complaint has been stored
C7_Witness ==
    /\ lastOp.op = "feedback" /\ lastOp.code = 201
    /\ \E f \in feedbacks : f.userId = lastOp.actor /\ f.complaintId = lastOp.cid

\* C8: after any sequence of add-data-point operations the history holds at
\* most 1000 points and is exactly the most recent min(n, 1000) posted values
\* in insertion order.
C8_HistoryIsLastThousand ==
    \A s \in DOMAIN sensors :
        LET dp == sensors[s].dataPoints
            n == Len(posted)
            k == IF n < 1000 THEN n ELSE 1000
        IN /\ Len(dp) = k
           /\ \A i \in 1..k : dp[i] = posted[n - k + i]

\* two points have been added to a full history, each evicting one point
C8_Witness ==
    /\ Len(posted) = 1002
    /\ lastOp.op = "sensor-data" /\ lastOp.code = 200
    /\ \A s \in DOMAIN sensors : Len(sensors[s].dataPoints) = 1000

\* C9: an escalate request on a pending or in-progress complaint whose stored
\* level is L leaves the stored level at min(3, L + 1) and sets the urgency
\* flag when that level is 2 or higher; on a resolved or closed complaint it
\* fails.
C9_EscalateIncrements ==
    [][(lastOp'.op = "escalate"
        /\ Role(lastOp'.actor) = "admin"
        /\ lastOp'.cid \in DOMAIN complaints)
       => LET c == lastOp'.cid
              target == IF complaints[c].escalationLevel + 1 < 3
                        THEN complaints[c].escalationLevel + 1 ELSE 3
          IN IF complaints[c].status \in OpenStatuses
             THEN /\ c \in DOMAIN complaints'
                  /\ complaints'[c].escalationLevel = target
                  /\ (target >= 2 => complaints'[c].isUrgent)
             ELSE /\ lastOp'.code = 400
                  /\ complaints' = complaints]_vars

SaveOps == {"update", "respond", "escalate"}

\* C10: when a pending complaint of priority high is saved at age 14 days its
\* escalation level becomes min(3, floor(14 / 7)) = 2 and its urgency flag
\* becomes true; whenever auto-escalation sets a level of 2 or higher the
\* urgency flag is set.
C10_AutoEscalationSetsUrgent ==
    [][\A c \in Kept :
           (lastOp'.op \in SaveOps /\ lastOp'.code = 200 /\ lastOp'.cid = c
            /\ complaints'[c].status = "pending"
            /\ complaints'[c].priority = "high"
            /\ now - complaints'[c].createdAt >= 14)
           => /\ complaints'[c].escalationLevel >= 2
              /\ (now - complaints'[c].createdAt = 14
                     => complaints'[c].escalationLevel = 2)
              /\ complaints'[c].isUrgent]_vars

SavingOps == {"update", "respond", "resolve", "escalate"}

\* the request just answered was about the stored complaint c and was not
\* turned away by the authorization middleware
Handled(ops, c) ==
    /\ lastOp'.op \in ops
    /\ lastOp'.cid = c
    /\ lastOp'.code /= 403

\* C11: every save of a complaint that is pending, of priority high and aged 7
\* days or more stores the level min(3, floor(age / 7)); a save of a complaint
\* that misses one of the three conditions stores the level the operation set
\* (the stored level, or min(3, level + 1) for an escalate); a second save at
\* the same age stores the same level again.
C11_AutoEscalationFormula ==
    [][\A c \in Kept :
           (lastOp'.op \in SavingOps /\ lastOp'.cid = c /\ lastOp'.code = 200)
           => LET d == complaints'[c]
                  age == now - d.createdAt
                  l == complaints[c].escalationLevel
                  set == IF lastOp'.op = "escalate"
                         THEN (IF l + 1 < 3 THEN l + 1 ELSE 3)
                         ELSE l
              IN /\ (d.status = "pending" /\ d.priority = "high" /\ age >= 7)
                    => d.escalationLevel = (IF age \div 7 < 3 THEN age \div 7 ELSE 3)
                 /\ ~(d.status = "pending" /\ d.priority = "high" /\ age >= 7)
                    => d.escalationLevel = set
                 /\ (lastOp.op \in SavingOps /\ lastOp.cid = c /\ lastOp.code = 200
                     /\ lastOp'.op \in {"update", "respond"}
                     /\ d.priority = complaints[c].priority)
                    => d.escalationLevel = l]_vars

\* a pending high-priority complaint has been saved at age 28: level 3, not 4
C11_Witness ==
    /\ lastOp.op = "respond" /\ lastOp.code = 200
    /\ \E c \in DOMAIN complaints :
          /\ lastOp.cid = c
          /\ complaints[c].status = "pending" /\ complaints[c].priority = "high"
          /\ now - complaints[c].createdAt = 28
          /\ complaints[c].escalationLevel = 3

C13_DeleteOnlyPending ==
    [][\A c \in DOMAIN complaints :
           /\ (lastOp'.op = "delete" /\ lastOp'.cid = c
               /\ Role(lastOp'.actor) = "admin") => lastOp'.code /= 403
           /\ Handled({"delete"}, c)
              => IF complaints[c].status = "pending"
                 THEN lastOp'.code = 200 /\ c \notin DOMAIN complaints'
                 ELSE lastOp'.code = 400 /\ complaints' = complaints]_vars

\* a delete of an in-progress complaint has been refused
C13_Witness ==
    /\ lastOp.op = "delete" /\ lastOp.code = 400
    /\ lastOp.cid \in DOMAIN complaints
    /\ complaints[lastOp.cid].status = "in-progress"

\* C14: an update request (one the authorization middleware lets through)
\* succeeds exactly while the complaint is pending or in-progress; on a
\* resolved or closed complaint it fails with 400 and changes no field.
C14_UpdateOnlyOpen ==
    [][\A c \in DOMAIN complaints :
           Handled({"update"}, c)
           => IF complaints[c].status \in OpenStatuses
              THEN /\ lastOp'.code = 200
                   /\ c \in DOMAIN complaints'
                   /\ complaints'[c].status = complaints[c].status
              ELSE /\ lastOp'.code = 400
                   /\ complaints' = complaints]_vars

\* an update of a closed complaint has been refused
C14_Witness ==
    /\ lastOp.op = "update" /\ lastOp.code = 400
    /\ lastOp.cid \in DOMAIN complaints
    /\ complaints[lastOp.cid].status = "closed"

\* C18: right after a successful create the new complaint is pending, at level
\* 0 and not urgent, whatever the body carried (a status and an escalation
\* level included), and its priority is the body's, or medium when the body
\* has none.
C18_CreateDefaults ==
    [][(lastOp'.op = "create" /\ lastOp'.code = 201)
       => LET c == lastOp'.cid
          IN /\ c \notin DOMAIN complaints
             /\ c \in DOMAIN complaints'
             /\ complaints'[c].status = "pending"
             /\ complaints'[c].escalationLevel = 0
             /\ complaints'[c].isUrgent = FALSE
             /\ complaints'[c].userId = lastOp'.actor
             /\ complaints'[c].priority =
                    (IF lastOp'.body.priority = Absent THEN "medium"
                     ELSE lastOp'.body.priority)]_vars

\* a create whose body named no priority, but a status and a level, has stored
\* a pending medium complaint at level 0
C18_Witness ==
    /\ lastOp.op = "create" /\ lastOp.code = 201
    /\ lastOp.body.priority = Absent
    /\ lastOp.body.status = "resolved"
    /\ lastOp.body.escalationLevel = 3
    /\ lastOp.cid \in DOMAIN complaints
    /\ complaints[lastOp.cid].status = "pending"
    /\ complaints[lastOp.cid].priority = "medium"
    /\ complaints[lastOp.cid].escalationLevel = 0

\* the status disqualifies the operation
Disqualified(op, status) ==
    CASE op = "resolve" -> status = "resolved"
      [] op \in {"escalate", "update"} -> status \in {"resolved", "closed"}
      [] op = "delete" -> status /= "pending"
      [] OTHER -> FALSE

\* C19: a resolve on a resolved complaint, an escalate or update on a resolved
\* or closed one and a delete on a non-pending one (requests the authorization
\* middleware lets through) are each answered with the 400 error of the
\* violated precondition, never with a success, and leave the stored
\* complaints exactly as they were.
C19_PreconditionErrors ==
    [][\A c \in DOMAIN complaints :
           (Handled({"resolve", "escalate", "update", "delete"}, c)
            /\ Disqualified(lastOp'.op, complaints[c].status))
           => (lastOp'.code = 400 /\ complaints' = complaints)]_vars

\* a resolve of a resolved complaint has been refused
C19_Witness ==
    /\ lastOp.op = "resolve" /\ lastOp.code = 400
    /\ lastOp.cid \in DOMAIN complaints
    /\ complaints[lastOp.cid].status = "resolved"

\* C15: an alert request on a sensor whose isActive flag is false is rejected
\* and leaves the sensor's alert list as it was.
C15_NoAlertOnInactive ==
    [][\A s \in DOMAIN sensors :
           (lastOp'.op = "sensor-alert" /\ lastOp'.cid = s /\ ~sensors[s].isActive)
           => /\ lastOp'.code /= 200
              /\ s \in DOMAIN sensors'
              /\ sensors'[s].alerts = sensors[s].alerts]_vars

\* C16: a data post to a sensor whose isActive flag is false is answered 400 and
\* leaves the sensor (current value, status, last reading, history) as it was;
\* no operation sets isActive back to true, so the history of a soft-deleted
\* sensor never changes again.
C16_NoDataOnInactive ==
    [][\A s \in DOMAIN sensors :
           ~sensors[s].isActive
           => /\ s \in DOMAIN sensors'
              /\ ~sensors'[s].isActive
              /\ sensors'[s].dataPoints = sensors[s].dataPoints
              /\ (lastOp'.op = "sensor-data" /\ lastOp'.cid = s)
                 => (lastOp'.code = 400 /\ sensors'[s] = sensors[s])]_vars

\* a data post to a soft-deleted sensor that holds a reading has been refused
C16_Witness ==
    /\ lastOp.op = "sensor-data" /\ lastOp.code = 400
    /\ lastOp.cid \in DOMAIN sensors
    /\ ~sensors[lastOp.cid].isActive
    /\ Len(sensors[lastOp.cid].dataPoints) = 1
    /\ Len(posted) = 1

\* C20: no step of the sensor operations removes an alert; an alert enters
\* the list unacknowledged; an acknowledge request on an alert of the list sets
\* its flag and stamps the acknowledger and the time, changing no other alert;
\* an acknowledged alert stays acknowledged.
C20_AlertsOnlyGrow ==
    [][\A s \in DOMAIN sensors :
           /\ s \in DOMAIN sensors'
           /\ LET a == sensors[s].alerts
                  b == sensors'[s].alerts
              IN /\ Len(b) >= Len(a)
                 /\ \A i \in DOMAIN a :
                       /\ b[i].id = a[i].id
                       /\ a[i].isAcknowledged => b[i].isAcknowledged
                 /\ \A i \in DOMAIN b \ DOMAIN a :
                       /\ ~b[i].isAcknowledged
                       /\ b[i].acknowledgedBy = NoUser
                       /\ \A k \in DOMAIN a : a[k].id /= b[i].id
                 /\ (lastOp'.op = "sensor-ack" /\ lastOp'.code = 200
                     /\ lastOp'.cid = s /\ lastOp'.alert \in DOMAIN a)
                    => b = [a EXCEPT ![lastOp'.alert] =
                               [id |-> a[lastOp'.alert].id,
                                isAcknowledged |-> TRUE,
                                acknowledgedBy |-> lastOp'.actor,
                                acknowledgedAt |-> now]]]_vars

\* the second of two alerts has been acknowledged and the first has not
C20_Witness ==
    /\ lastOp.op = "sensor-ack" /\ lastOp.code = 200 /\ lastOp.alert = 2
    /\ lastOp.cid \in DOMAIN sensors
    /\ Len(sensors[lastOp.cid].alerts) = 2
    /\ ~sensors[lastOp.cid].alerts[1].isAcknowledged
    /\ sensors[lastOp.cid].alerts[2].isAcknowledged
    /\ sensors[lastOp.cid].alerts[2].acknowledgedBy = lastOp.actor

\* C17: a user that a complaint or a feedback record references is never
\* removed from the User collection (an administrator's delete only disables
\* the account), so every complaint and every feedback record references a
\* user that exists.
C17_ReferencedUserKept ==
    /\ \A c \in DOMAIN complaints : complaints[c].userId \in DOMAIN users
    /\ \A f \in feedbacks : f.userId \in DOMAIN users

\* C21: for every status and all battery and signal levels in 0..100 the
\* health score is max(0, 100 - statusDeduction - batteryDeduction -
\* signalDeduction), with 40/20/60 for critical/warning/offline, 30 for a
\* battery below 20 else 15 below 50, 20 for a signal below 30 else 10 below
\* 60; so it lies in 0..100.
C21_HealthScore ==
    derived.score /= Unset =>
        LET statusDeduction == CASE derived.status = "critical" -> 40
                                 [] derived.status = "warning" -> 20
                                 [] derived.status = "offline" -> 60
                                 [] OTHER -> 0
            batteryDeduction == CASE derived.batteryLevel < 20 -> 30
                                  [] derived.batteryLevel \in 20..49 -> 15
                                  [] OTHER -> 0
            signalDeduction == CASE derived.signalStrength < 30 -> 20
                                 [] derived.signalStrength \in 30..59 -> 10
                                 [] OTHER -> 0
            raw == 100 - statusDeduction - batteryDeduction - signalDeduction
        IN /\ derived.score = (IF raw >= 0 THEN raw ELSE 0)
           /\ derived.score \in 0..100

\* the score of an offline sensor with a flat battery and no signal has been
\* evaluated: the floor acts
C21_Witness ==
    derived = [status |-> "offline", batteryLevel |-> 0, signalStrength |-> 0,
               score |-> 0]

\* C22: after any sequence of registrations, overlapping ones included, no
\* two users share an email or a username (a registration whose email or
\* username is taken is answered 400 and creates no user).
C22_NoSharedEmailOrUsername ==
    \A x \in DOMAIN users, y \in DOMAIN users :
        (users[x].email = users[y].email
            \/ users[x].username = users[y].username) => x = y

\* C23: in every reachable state a complaint whose isUrgent flag is true has
\* a stored escalation level of UrgentLevel (2) or more, also after a manual
\* escalate whose save runs the auto-escalation rule on a pending complaint
\* of high priority that is 7 days old or older.
C23_UrgentImpliesLevelTwo ==
    \A c \in DOMAIN complaints :
        complaints[c].isUrgent => complaints[c].escalationLevel >= UrgentLevel

\* C26: in every reachable state, the clock advancing on its own, a pending
\* complaint of high priority that is 7 days old or older has the stored
\* escalation level min(3, floor(age in days / 7)), which is at least 1: the
\* stored level is never stale with respect to the age.
C26_AsStated ==
    \A c \in DOMAIN complaints :
        LET doc == complaints[c]
            weeks == ageInDays(doc, now) \div AutoEscalateDays
        IN (doc.status = "pending" /\ doc.priority = "high"
               /\ ageInDays(doc, now) >= AutoEscalateDays)
           => /\ doc.escalationLevel =
                    (IF weeks < MaxEscalationLevel THEN weeks
                     ELSE MaxEscalationLevel)
              /\ doc.escalationLevel >= 1

\* C26 as amended: the level follows the age at the saves only.  A save
\* (update, respond, escalate) that leaves a complaint pending, of priority
\* high and 7 days old or older stores min(3, floor(age in days / 7)), which
\* is at least 1; the passing of a day leaves the stored level as it is, so
\* between two saves the stored level can be behind the age.
C26_LevelFollowsAgeAtSave ==
    [][\A c \in Kept :
           LET d == complaints'[c]
               weeks == ageInDays(d, now) \div AutoEscalateDays
           IN /\ (lastOp'.op \in SaveOps /\ lastOp'.cid = c /\ lastOp'.code = 200
                    /\ d.status = "pending" /\ d.priority = "high"
                    /\ ageInDays(d, now) >= AutoEscalateDays)
                 => /\ d.escalationLevel =
                          (IF weeks < MaxEscalationLevel THEN weeks
                           ELSE MaxEscalationLevel)
                    /\ d.escalationLevel >= 1
              /\ lastOp'.op = "tick"
                 => d.escalationLevel = complaints[c].escalationLevel]_vars

\* an update has been saved on the day a pending complaint of priority high
\* turned 7 days old: level 1 is stored
C26_Witness ==
    /\ lastOp.op = "update" /\ lastOp.code = 200
    /\ \E c \in DOMAIN complaints :
          /\ lastOp.cid = c
          /\ complaints[c].status = "pending" /\ complaints[c].priority = "high"
          /\ ageInDays(complaints[c], now) = AutoEscalateDays
          /\ complaints[c].escalationLevel = 1

\* C24: a complaint that has been resolved is never removed from the store,
\* also when a delete request and a resolve request for the same pending
\* complaint overlap (the delete reads status pending, the resolve commits,
\* then the delete executes).
C24_ResolvedNeverRemoved ==
    [][\A c \in DOMAIN complaints :
           complaints[c].status = "resolved" => c \in DOMAIN complaints']_vars

\* C25: when two data-point posts for the same active sensor overlap and
\* both are answered with success, both posted values are in the sensor's
\* history afterwards (no lost update) and the history is still no longer
\* than 1000.
C25_BothPostsKeptWithinCap ==
    (\A r \in Reqs : inflight[r] = Idle) =>
        \A s \in DOMAIN sensors :
            LET dp == sensors[s].dataPoints
            IN /\ Len(dp) <= HistoryCap
               /\ \A k \in 1..nPosts :
                      dp[Len(dp) - nPosts + k]
                          = posted[Len(posted) - nPosts + k]

UserAdminOps == {"user-update", "user-delete", "user-deactivate", "user-demote"}

\* C27: no request that an administrator issues through the user-management
\* routes (update, delete, deactivate, demote) ends with that administrator's
\* own account deleted, deactivated or without the admin role.
C27_AdminKeepsOwnAccount ==
    [][(/\ lastOp'.op \in UserAdminOps
        /\ lastOp'.actor \in DOMAIN users
        /\ users[lastOp'.actor].isActive
        /\ users[lastOp'.actor].role = "admin")
       => /\ lastOp'.actor \in DOMAIN users'
          /\ users'[lastOp'.actor].isActive
          /\ users'[lastOp'.actor].role = "admin"]_vars

\* C28: a complaint created through POST /api/complaints only ever has
\* status pending or resolved, whatever the sequence of requests to the
\* backend: no route sets in-progress or closed.
C28_ApiStatusPendingOrResolved ==
    \A c \in DOMAIN complaints :
        complaints[c].origin = "api"
            => complaints[c].status \in {"pending", "resolved"}

\* a complaint filed through the API has been answered by the administrator
\* and is still pending
C28_Witness ==
    /\ lastOp.op = "respond" /\ lastOp.code = 200
    /\ lastOp.cid \in DOMAIN complaints
    /\ complaints[lastOp.cid].origin = "api"
    /\ complaints[lastOp.cid].responded
    /\ complaints[lastOp.cid].status = "pending"

\* C29: every status change the presentation layer can make (the admin
\* status selector and the send-response action, both through
\* updateComplaint) is one the lifecycle engine permits: none moves a
\* complaint out of resolved or closed, and recording an admin response
\* leaves the status as it is.
C29_UiFollowsLifecycle ==
    [][\A c \in Kept :
           /\ complaints[c].status \in {"resolved", "closed"}
              => complaints'[c].status = complaints[c].status
           /\ (lastOp'.op = "ui-respond" /\ lastOp'.cid = c)
              => complaints'[c].status = complaints[c].status]_vars

\* C30: every sensor the presentation layer holds has the status that the
\* persistence layer's ratio rule derives from its current and threshold
\* values, the bin-level sensor at 85/80 included.
C30_MockStatusIsDerived ==
    \A s \in DOMAIN sensors :
        sensors[s].status
            = deriveStatus(sensors[s].currentValue, sensors[s].thresholdValue)

====
